---------------------------- MODULE Spec2Model ----------------------------
(***************************************************************************)
(* Model of the two serverless handlers of healthcare-rss-backend:         *)
(*   netlify/functions/test-rss.js       (feed validation, "test-rss")     *)
(*   netlify/functions/trigger-github.js (workflow dispatch, "trigger")    *)
(*                                                                         *)
(* Text that the code inspects character by character (URLs, hostnames,    *)
(* content types, response bodies) is a sequence of one-character strings. *)
(* Fixed messages that the code only emits are TLA+ strings.               *)
(***************************************************************************)
EXTENDS Integers, Sequences, FiniteSets, TLC

(***************************************************************************)
(* JavaScript string and array primitives used by the handlers.            *)
(***************************************************************************)
Min(a, b) == IF a <= b THEN a ELSE b

\* String.prototype.startsWith
StartsWith(s, p) == Len(s) >= Len(p) /\ SubSeq(s, 1, Len(p)) = p

\* String.prototype.includes
StrIncludes(s, p) ==
    \E i \in 0..(Len(s) - Len(p)) : \A j \in 1..Len(p) : s[i + j] = p[j]

\* Array.prototype.includes
ArrIncludes(arr, x) == \E i \in 1..Len(arr) : arr[i] = x

\* String.prototype.substring(0, n)
Substring0(s, n) == SubSeq(s, 1, Min(n, Len(s)))

UpperCase == <<"A","B","C","D","E","F","G","H","I","J","K","L","M",
               "N","O","P","Q","R","S","T","U","V","W","X","Y","Z">>
LowerCase == <<"a","b","c","d","e","f","g","h","i","j","k","l","m",
               "n","o","p","q","r","s","t","u","v","w","x","y","z">>

LowerChar(c) ==
    IF \E i \in 1..26 : UpperCase[i] = c
    THEN LowerCase[CHOOSE i \in 1..26 : UpperCase[i] = c]
    ELSE c

\* String.prototype.toLowerCase (ASCII)
ToLowerCase(s) == [i \in 1..Len(s) |-> LowerChar(s[i])]

RECURSIVE Flatten(_)
\* the string built by appending the strings of ss in order
Flatten(ss) == IF ss = <<>> THEN <<>> ELSE Head(ss) \o Flatten(Tail(ss))

(***************************************************************************)
(* isLocalOrPrivateIP                                                      *)
(***************************************************************************)
LOCALHOST == <<"l","o","c","a","l","h","o","s","t">>
LOOPBACK4 == <<"1","2","7",".","0",".","0",".","1">>
LOOPBACK6 == <<":",":","1">>
PFX192    == <<"1","9","2",".","1","6","8",".">>
PFX10     == <<"1","0",".">>
PFX172    == <<"1","7","2",".">>

\* variant: the 172. prefix is not checked
isLocalOrPrivateIP_No172(hostname) ==
    \/ ArrIncludes(<<LOCALHOST, LOOPBACK4, LOOPBACK6>>, hostname)
    \/ StartsWith(hostname, PFX192)
    \/ StartsWith(hostname, PFX10)

isLocalOrPrivateIP(hostname) ==
    IF ArrIncludes(<<LOCALHOST, LOOPBACK4, LOOPBACK6>>, hostname)
    THEN TRUE
    ELSE IF \/ StartsWith(hostname, PFX192)
            \/ StartsWith(hostname, PFX10)
            \/ StartsWith(hostname, PFX172)
         THEN TRUE
         ELSE FALSE

(***************************************************************************)
(* new URL(url): the WHATWG URL parser, for absolute URLs without a base.  *)
(* Modelled: scheme detection, special-scheme authority, credentials,      *)
(* port, host parsing (lower-casing, bracketed IPv6, the IPv4 number       *)
(* parser with decimal/octal/hex parts and short forms), path and query.   *)
(* IPv6 literals are taken in their compressed canonical spelling, and     *)
(* numeric hosts stay below 2^31.                                          *)
(***************************************************************************)
Digits16 == <<"0","1","2","3","4","5","6","7","8","9","a","b","c","d","e","f">>

IsAlpha(c) == \E i \in 1..26 : UpperCase[i] = c \/ LowerCase[i] = c
IsRadixDigit(c, r) == \E i \in 1..r : Digits16[i] = LowerChar(c)
IsDigit(c) == IsRadixDigit(c, 10)
DigitVal(c) == (CHOOSE i \in 1..16 : Digits16[i] = LowerChar(c)) - 1
IsSchemeChar(c) == IsAlpha(c) \/ IsDigit(c) \/ c \in {"+", "-", "."}

\* index of the first character of s that is in C, 0 when there is none
IndexOf(s, C) ==
    IF \E i \in 1..Len(s) : s[i] \in C
    THEN CHOOSE i \in 1..Len(s) : s[i] \in C /\ \A j \in 1..(i - 1) : s[j] \notin C
    ELSE 0

LastIndexOf(s, C) ==
    IF \E i \in 1..Len(s) : s[i] \in C
    THEN CHOOSE i \in 1..Len(s) : s[i] \in C /\ \A j \in (i + 1)..Len(s) : s[j] \notin C
    ELSE 0

From(s, i) == SubSeq(s, i, Len(s))

RECURSIVE Split(_, _)
Split(s, sep) ==
    LET i == IndexOf(s, {sep})
    IN  IF i = 0 THEN <<s>> ELSE <<SubSeq(s, 1, i - 1)>> \o Split(From(s, i + 1), sep)

RECURSIVE ParseRadix(_, _)
ParseRadix(s, r) ==
    IF s = <<>> THEN 0
    ELSE ParseRadix(SubSeq(s, 1, Len(s) - 1), r) * r + DigitVal(s[Len(s)])

RECURSIVE IntToStr(_)
IntToStr(n) ==
    IF n < 10 THEN <<Digits16[n + 1]>>
    ELSE IntToStr(n \div 10) \o <<Digits16[(n % 10) + 1]>>

RECURSIVE Pow256(_)
Pow256(k) == IF k = 0 THEN 1 ELSE 256 * Pow256(k - 1)

\* the IPv4 number parser; -1 is failure
IPv4Number(part) ==
    IF part = <<>> THEN -1
    ELSE LET hex  == Len(part) >= 2 /\ part[1] = "0" /\ part[2] \in {"x", "X"}
             oct  == ~hex /\ Len(part) >= 2 /\ part[1] = "0"
             r    == IF hex THEN 16 ELSE IF oct THEN 8 ELSE 10
             body == IF hex THEN From(part, 3) ELSE IF oct THEN Tail(part) ELSE part
         IN  IF \A i \in 1..Len(body) : IsRadixDigit(body[i], r)
             THEN ParseRadix(body, r)
             ELSE -1

\* the parts of a host between dots, without the empty part a trailing dot leaves
HostParts(host) ==
    LET parts == Split(host, ".")
    IN  IF Len(parts) > 1 /\ parts[Len(parts)] = <<>>
        THEN SubSeq(parts, 1, Len(parts) - 1)
        ELSE parts

\* the ends-in-a-number checker
EndsInNumber(host) ==
    LET parts == HostParts(host)
        last  == parts[Len(parts)]
    IN  /\ last # <<>>
        /\ \/ \A i \in 1..Len(last) : IsDigit(last[i])
           \/ IPv4Number(last) # -1

HostFailure == [ok |-> FALSE, host |-> <<>>]

\* the IPv4 parser and serializer
IPv4Parse(host) ==
    LET parts == HostParts(host)
        n     == Len(parts)
        num   == [i \in 1..n |-> IPv4Number(parts[i])]
    IN  IF n > 4 THEN HostFailure
        ELSE IF \E i \in 1..n : num[i] = -1 THEN HostFailure
        ELSE IF \E i \in 1..(n - 1) : num[i] > 255 THEN HostFailure
        \* a single number is below 2^31 here, so below 256^4
        ELSE IF n > 1 /\ num[n] >= Pow256(5 - n) THEN HostFailure
        ELSE LET octet(k) == IF k < n THEN num[k]
                             ELSE (num[n] \div Pow256(4 - k)) % 256
             IN  [ok |-> TRUE,
                  host |-> IntToStr(octet(1)) \o <<".">> \o IntToStr(octet(2)) \o <<".">>
                           \o IntToStr(octet(3)) \o <<".">> \o IntToStr(octet(4))]

ForbiddenHostChars == {" ", "#", "/", "<", ">", "?", "@", "[", "\\", "]", "^", "|", "%", ":"}

\* the host parser for special schemes
HostParse(input) ==
    IF input = <<>> THEN HostFailure
    ELSE IF input[1] = "["
    THEN IF /\ input[Len(input)] = "]"
            /\ Len(input) > 2
            /\ \A i \in 2..(Len(input) - 1) : IsRadixDigit(input[i], 16) \/ input[i] = ":"
         THEN [ok |-> TRUE, host |-> ToLowerCase(input)]
         ELSE HostFailure
    ELSE LET domain == ToLowerCase(input)
         IN  IF \E i \in 1..Len(domain) : domain[i] \in ForbiddenHostChars
             THEN HostFailure
             ELSE IF EndsInNumber(domain) THEN IPv4Parse(domain)
             ELSE [ok |-> TRUE, host |-> domain]

S_http  == <<"h","t","t","p">>
S_https == <<"h","t","t","p","s">>
S_ftp   == <<"f","t","p">>
S_ws    == <<"w","s">>
S_wss   == <<"w","s","s">>
SpecialSchemes == {S_http, S_https, S_ftp, S_ws, S_wss}

DefaultPort(scheme) ==
    IF scheme \in {S_http, S_ws} THEN 80
    ELSE IF scheme \in {S_https, S_wss} THEN 443
    ELSE 21

InvalidURL == [ok |-> FALSE]

\* the authority "host[:port]" split into its two parts; bad when malformed
SplitHostPort(hp) ==
    IF hp # <<>> /\ hp[1] = "["
    THEN LET b == IndexOf(hp, {"]"})
         IN  IF b = 0 THEN [bad |-> TRUE, host |-> <<>>, port |-> <<>>]
             ELSE IF b = Len(hp) THEN [bad |-> FALSE, host |-> hp, port |-> <<>>]
             ELSE IF hp[b + 1] = ":"
                  THEN [bad |-> FALSE, host |-> SubSeq(hp, 1, b), port |-> From(hp, b + 2)]
                  ELSE [bad |-> TRUE, host |-> <<>>, port |-> <<>>]
    ELSE LET c == IndexOf(hp, {":"})
         IN  IF c = 0 THEN [bad |-> FALSE, host |-> hp, port |-> <<>>]
             ELSE [bad |-> FALSE, host |-> SubSeq(hp, 1, c - 1), port |-> From(hp, c + 1)]

\* pathname and search of what follows the authority
PathOf(tail, special) ==
    LET e == IndexOf(tail, {"?", "#"})
        p == IF e = 0 THEN tail ELSE SubSeq(tail, 1, e - 1)
    IN  IF p = <<>> /\ special THEN <<"/">> ELSE p

SearchOf(tail) ==
    LET q == IndexOf(tail, {"?", "#"})
    IN  IF q = 0 \/ tail[q] = "#" THEN <<>>
        ELSE LET rest == From(tail, q)
                 h    == IndexOf(rest, {"#"})
                 s    == IF h = 0 THEN rest ELSE SubSeq(rest, 1, h - 1)
             IN  IF Len(s) <= 1 THEN <<>> ELSE s

ParseSpecial(scheme, rest) ==
    LET lead  == IF \E i \in 1..Len(rest) : rest[i] \notin {"/", "\\"}
                 THEN (CHOOSE i \in 1..Len(rest) :
                          /\ rest[i] \notin {"/", "\\"}
                          /\ \A j \in 1..(i - 1) : rest[j] \in {"/", "\\"}) - 1
                 ELSE Len(rest)
        after == From(rest, lead + 1)
        e     == IndexOf(after, {"/", "\\", "?", "#"})
        auth  == IF e = 0 THEN after ELSE SubSeq(after, 1, e - 1)
        tail  == IF e = 0 THEN <<>> ELSE From(after, e)
        at    == LastIndexOf(auth, {"@"})
        hp    == SplitHostPort(From(auth, at + 1))
        h     == HostParse(hp.host)
        portOK == /\ \A i \in 1..Len(hp.port) : IsDigit(hp.port[i])
                  /\ Len(hp.port) <= 5
                  /\ ParseRadix(hp.port, 10) <= 65535
    IN  IF hp.bad \/ ~h.ok \/ ~portOK THEN InvalidURL
        ELSE [ok       |-> TRUE,
              protocol |-> scheme \o <<":">>,
              hostname |-> h.host,
              port     |-> IF hp.port = <<>> \/ ParseRadix(hp.port, 10) = DefaultPort(scheme)
                           THEN <<>> ELSE IntToStr(ParseRadix(hp.port, 10)),
              pathname |-> PathOf(tail, TRUE),
              search   |-> SearchOf(tail)]

ParseOther(scheme, rest) ==
    IF StartsWith(rest, <<"/", "/">>)
    THEN LET after == From(rest, 3)
             e     == IndexOf(after, {"/", "?", "#"})
             auth  == IF e = 0 THEN after ELSE SubSeq(after, 1, e - 1)
             tail  == IF e = 0 THEN <<>> ELSE From(after, e)
             at    == LastIndexOf(auth, {"@"})
             hp    == SplitHostPort(From(auth, at + 1))
         IN  IF hp.bad \/ \E i \in 1..Len(hp.port) : ~IsDigit(hp.port[i]) THEN InvalidURL
             ELSE [ok |-> TRUE, protocol |-> scheme \o <<":">>, hostname |-> hp.host,
                   port |-> hp.port, pathname |-> PathOf(tail, FALSE),
                   search |-> SearchOf(tail)]
    ELSE [ok |-> TRUE, protocol |-> scheme \o <<":">>, hostname |-> <<>>,
          port |-> <<>>, pathname |-> PathOf(rest, FALSE), search |-> SearchOf(rest)]

\* leading and trailing spaces are stripped before parsing
RECURSIVE Trim(_)
Trim(s) ==
    IF s # <<>> /\ s[1] = " " THEN Trim(Tail(s))
    ELSE IF s # <<>> /\ s[Len(s)] = " " THEN Trim(SubSeq(s, 1, Len(s) - 1))
    ELSE s

\* new URL(raw): [ok |-> FALSE] stands for the TypeError it throws
ParseURL(raw) ==
    LET url == Trim(raw)
        c   == IndexOf(url, {":"})
    IN  IF /\ c > 1
           /\ IsAlpha(url[1])
           /\ \A i \in 2..(c - 1) : IsSchemeChar(url[i])
        THEN LET scheme == ToLowerCase(SubSeq(url, 1, c - 1))
             IN  IF scheme \in SpecialSchemes
                 THEN ParseSpecial(scheme, From(url, c + 1))
                 ELSE ParseOther(scheme, From(url, c + 1))
        ELSE InvalidURL

(***************************************************************************)
(* JavaScript values carried by a request, and the reads the handlers do   *)
(* on them.                                                                *)
(***************************************************************************)
Undefined == [t |-> "undefined"]
Null      == [t |-> "null"]
Str(s)    == [t |-> "string", s |-> s]
Num(n)    == [t |-> "number", n |-> n]
Obj(f)    == [t |-> "object", f |-> f]
EmptyObj  == Obj([k \in {} |-> Undefined])

\* ToBoolean
Truthy(v) ==
    CASE v.t = "undefined" -> FALSE
      [] v.t = "null"      -> FALSE
      [] v.t = "string"    -> v.s # <<>>
      [] v.t = "number"    -> v.n # 0
      [] OTHER             -> TRUE

\* property read v[k]; destructuring null or undefined throws instead
Prop(v, k) == IF v.t = "object" /\ k \in DOMAIN v.f THEN v.f[k] ELSE Undefined
Destructurable(v) == v.t \notin {"null", "undefined"}

(***************************************************************************)
(* event.body is the text of the request body.  It is represented by the   *)
(* document it spells: absent, the empty string, text that is not JSON,    *)
(* or the JSON value the text denotes.                                     *)
(***************************************************************************)
BodyAbsent    == [kind |-> "absent"]
BodyEmpty     == [kind |-> "empty"]
BodyMalformed == [kind |-> "malformed"]
BodyJSON(v)   == [kind |-> "json", doc |-> v]

\* JSON.parse(text): threw stands for the SyntaxError
JSONparse(text) ==
    IF text.kind = "json" THEN [threw |-> FALSE, value |-> text.doc]
    ELSE [threw |-> TRUE, value |-> Undefined]

\* the response object a handler returns; the CORS headers are the same on all
Response(status, body) == [statusCode |-> status, headers |-> "cors", body |-> body]
NoResponse == [statusCode |-> 0, headers |-> "none", body |-> [success |-> FALSE]]

\* an Error object: its code ("" when it has none) and its message
Err(code, message) == [code |-> code, message |-> message]

(***************************************************************************)
(* Literals of the two handlers.                                           *)
(***************************************************************************)
NEW_FEED     == <<"n","e","w","_","f","e","e","d">>
FULL_REFRESH == <<"f","u","l","l","_","r","e","f","r","e","s","h">>
SCHEDULED    == <<"s","c","h","e","d","u","l","e","d">>
CLEANUP_ONLY == <<"c","l","e","a","n","u","p","_","o","n","l","y">>
XML          == <<"x","m","l">>
RSS          == <<"r","s","s">>
ATOM         == <<"a","t","o","m">>
M_RSS        == <<"<","r","s","s">>
M_FEED       == <<"<","f","e","e","d">>
M_XML        == <<"<","?","x","m","l">>
M_CHANNEL    == <<"<","c","h","a","n","n","e","l">>
M_ATOM       == <<"<","a","t","o","m">>
P_HTTP       == <<"h","t","t","p",":">>
P_HTTPS      == <<"h","t","t","p","s",":">>

maxChunks == 50
PreviewLen == 1000

(***************************************************************************)
(* State of one invocation.                                                *)
(*   handler    which function the gateway invoked ("none" before)         *)
(*   event      the event it was invoked with                              *)
(*   pc         idle, awaiting (suspended at the await), done              *)
(*   request    the outbound ClientRequest and its life cycle              *)
(*   requests   number of outbound requests issued so far                  *)
(*   upstream   status line and headers of the IncomingMessage             *)
(*   data, chunks   the response callback's closure variables              *)
(*   received   the chunks the socket has delivered so far, in order       *)
(*   promise    the promise the handler awaits                             *)
(*   settledBy  the event that settled it                                  *)
(*   response   what the handler returned                                  *)
(*   returned   number of times the handler returned                       *)
(*   config     the process.env values of the dispatch handler's process   *)
(* and, for the admission filter taken on its own:                         *)
(*   hostname   the argument of a call of isLocalOrPrivateIP               *)
(*   verdict    pending before the call, then blocked or allowed           *)
(***************************************************************************)
VARIABLES handler, event, pc, request, requests, upstream, data, chunks,
          received, promise, settledBy, response, returned, config,
          hostname, verdict

vars == <<handler, event, pc, request, requests, upstream, data, chunks,
          received, promise, settledBy, response, returned, config,
          hostname, verdict>>

NoEvent    == [httpMethod |-> "none", body |-> BodyAbsent, headers |-> "none"]
NoRequest  == [state |-> "none", client |-> "none", hostname |-> <<>>,
               port |-> <<>>, path |-> <<>>, method |-> "none"]
NoUpstream == [statusCode |-> 0, headers |-> [k \in {} |-> <<>>], pattern |-> 0]
NoPromise  == [state |-> "none", value |-> Undefined]
NoConfig   == [GITHUB_TOKEN |-> Undefined, GITHUB_OWNER |-> Undefined,
               GITHUB_REPO |-> Undefined]

\* resolve(v) / reject(e) of a promise: only the first call has an effect
Resolve(p, v) == IF p.state = "pending" THEN [state |-> "fulfilled", value |-> v] ELSE p
Reject(p, e)  == IF p.state = "pending" THEN [state |-> "rejected", value |-> e] ELSE p
SettledBy(p, by, what) == IF p.state = "pending" THEN what ELSE by

(***************************************************************************)
(* test-rss.js: exports.handler up to the await                            *)
(***************************************************************************)
RssReturn(resp) == [fetch |-> FALSE, response |-> resp, parsedUrl |-> InvalidURL]
RssReject(status, msg) == RssReturn(Response(status, [success |-> FALSE, error |-> msg]))

\* the catch block of the handler
RssCatch(error) ==
    LET errorMessage ==
            IF error.code = "ENOTFOUND"
            THEN "Domain not found - please check the URL"
            ELSE IF error.code = "ECONNREFUSED"
            THEN "Connection refused - server may be down"
            ELSE IF error.code = "ETIMEDOUT"
            THEN "Request timeout - server took too long to respond"
            ELSE IF error.message # ""
            THEN "Error testing feed" \o ": " \o error.message
            ELSE "Error testing feed"
    IN  Response(500, [success |-> FALSE, error |-> errorMessage])

ProtocolAllowed(protocol) == ArrIncludes(<<P_HTTP, P_HTTPS>>, protocol)

\* variant: the hostname is not checked
RssAdmit_NoHostCheck(parsedUrl) ==
    IF ~ProtocolAllowed(parsedUrl.protocol)
    THEN RssReject(400, "Only HTTP and HTTPS URLs are allowed")
    ELSE [fetch |-> TRUE, response |-> NoResponse, parsedUrl |-> parsedUrl]

\* the admission steps on a parsed URL
RssAdmit(parsedUrl) ==
    IF ~ProtocolAllowed(parsedUrl.protocol)
    THEN RssReject(400, "Only HTTP and HTTPS URLs are allowed")
    ELSE IF isLocalOrPrivateIP(parsedUrl.hostname)
    THEN RssReject(400, "Local and private URLs are not allowed for security reasons")
    ELSE [fetch |-> TRUE, response |-> NoResponse, parsedUrl |-> parsedUrl]

\* the synchronous part: either a response to return, or the URL to fetch
RssSync(e) ==
    IF e.httpMethod = "OPTIONS"
    THEN RssReturn(Response(200, [message |-> "CORS OK"]))
    ELSE IF e.httpMethod # "POST"
    THEN RssReject(405, "Only POST requests allowed")
    ELSE LET text   == IF e.body.kind \in {"absent", "empty"}
                       THEN BodyJSON(EmptyObj) ELSE e.body
             parsed == JSONparse(text)
         IN  IF parsed.threw THEN RssReject(400, "Invalid JSON in request body")
             ELSE IF ~Destructurable(parsed.value)
             THEN RssReturn(RssCatch(Err("",
                     "Cannot destructure property 'url' of 'requestData' as it is null.")))
             ELSE LET url == Prop(parsed.value, "url")
                  IN  IF ~Truthy(url) \/ url.t # "string"
                      THEN RssReject(400, "Valid URL is required")
                      ELSE LET parsedUrl == ParseURL(url.s)
                           IN  IF ~parsedUrl.ok
                               THEN RssReject(400, "Invalid URL format")
                               ELSE RssAdmit(parsedUrl)

\* makeHttpRequest: the request it issues (client.request ... req.end())
makeHttpRequest(parsedUrl) ==
    [state    |-> "sent",
     client   |-> IF parsedUrl.protocol = P_HTTPS THEN "https" ELSE "http",
     hostname |-> parsedUrl.hostname,
     port     |-> parsedUrl.port,
     path     |-> parsedUrl.pathname \o parsedUrl.search,
     method   |-> "GET"]

\* response.headers[k] || ''
HeaderOr(headers, k) == IF k \in DOMAIN headers THEN headers[k] ELSE <<>>

\* variant: the whole body is searched
BodyPreview_Whole(d) == ToLowerCase(d)

\* response.data.substring(0, 1000).toLowerCase()
BodyPreview(d) == ToLowerCase(Substring0(d, PreviewLen))

\* the handler after the await resolved with resp
RssClassify(resp, url) ==
    LET contentType      == HeaderOr(resp.headers, "content-type")
        isXMLContentType == \/ StrIncludes(contentType, XML)
                            \/ StrIncludes(contentType, RSS)
                            \/ StrIncludes(contentType, ATOM)
        bodyPreview      == BodyPreview(resp.data)
        hasRSSElements   == \/ StrIncludes(bodyPreview, M_RSS)
                            \/ StrIncludes(bodyPreview, M_FEED)
                            \/ StrIncludes(bodyPreview, M_XML)
                            \/ StrIncludes(bodyPreview, M_CHANNEL)
                            \/ StrIncludes(bodyPreview, M_ATOM)
        isValidRSS       == isXMLContentType \/ hasRSSElements
        message          ==
            IF isValidRSS THEN <<"Feed looks valid! Ready to save.">>
            ELSE IF resp.statusCode = 200
            THEN <<"URL accessible but doesn't appear to be an RSS feed">>
            ELSE <<"HTTP ", resp.statusCode,
                   " - Server responded but may not be a valid feed">>
    IN  Response(200, [success |-> TRUE, valid |-> isValidRSS,
                       status |-> resp.statusCode, message |-> message,
                       contentType |-> contentType, url |-> url])

(***************************************************************************)
(* Inputs: the events the gateway delivers and what the network answers.   *)
(***************************************************************************)
T_BOGUS      == <<"b","o","g","u","s">>
T_UPPER      == <<"N","E","W","_","F","E","E","D">>
FEED_42      == <<"4","2">>
GH_TOKEN     == <<"g","h","p","_","x">>
GH_OWNER     == <<"j","p","2","3","4","5","m","j">>
GH_REPO      == <<"f","e","e","d","s">>
CT_HTML      == <<"t","e","x","t","/","h","t","m","l">>
CT_RSS       == <<"a","p","p","l","i","c","a","t","i","o","n","/","r","s","s","+","x","m","l">>
CT_UPPER     == <<"A","p","p","l","i","c","a","t","i","o","n","/","X","M","L">>
U_EXAMPLE    == <<"h","t","t","p","s",":","/","/","e","x","a","m","p","l","e",".","c","o","m","/","f","e","e","d",".","x","m","l">>
U_LOOP2      == <<"h","t","t","p",":","/","/","1","2","7",".","0",".","0",".","2","/">>
U_LOOP6      == <<"h","t","t","p",":","/","/","[",":",":","1","]",":","8","0","8","0","/","r","s","s","?","x","=","1">>
U_LOOP4      == <<"h","t","t","p",":","/","/","1","2","7",".","0",".","0",".","1","/">>
U_LOOPINT    == <<"h","t","t","p",":","/","/","2","1","3","0","7","0","6","4","3","3","/">>
U_LOCALHOST  == <<"H","T","T","P",":","/","/","L","O","C","A","L","H","O","S","T",":","3","0","0","0","/">>
U_PRIV10     == <<"h","t","t","p",":","/","/","u","s","e","r",":","p","w","@","1","0",".","0",".","0",".","1","/">>
U_PRIV172    == <<"h","t","t","p","s",":","/","/","1","7","2",".","1","6",".","0",".","1","/","f","e","e","d">>
U_PRIV192    == <<"h","t","t","p",":","/","/","1","9","2",".","1","6","8",".","1",".","1","/","f","e","e","d",".","x","m","l">>
U_FTP        == <<"f","t","p",":","/","/","e","x","a","m","p","l","e",".","c","o","m","/","f","e","e","d",".","x","m","l">>
U_FTPPRIV    == <<"f","t","p",":","/","/","1","0",".","0",".","0",".","1","/","f","e","e","d",".","x","m","l">>
U_JS         == <<"j","a","v","a","s","c","r","i","p","t",":","a","l","e","r","t","(","1",")">>
U_NOTURL     == <<"n","o","t"," ","a"," ","u","r","l">>
U_NOHOST     == <<"h","t","t","p",":","/","/">>
C_RSS        == <<"<","r","s","s"," ","v","e","r","s","i","o","n","=","\"","2",".","0","\"",">">>
C_ITEM       == <<"<","i","t","e","m","/",">">>
C_HTML       == <<"<","h","t","m","l",">">>
C_P          == <<"<","p",">","x","<","/","p",">">>
C_FEEDUP     == <<"<","F","E","E","D",">">>
C_R          == <<"<","r">>
C_SS         == <<"s","s",">">>
C_A          == <<"a">>
C_JSON1      == <<"{","\"","m","e","s","s","a","g","e","\"",":">>
C_JSON2      == <<"\"","N","o","t"," ","F","o","u","n","d","\"","}">>

MaxWireChunks == 52

Pad(n) == [i \in 1..n |-> " "]

\* URLs a client may post to test-rss
Urls == <<U_EXAMPLE, U_LOOP2, U_LOOP6, U_LOOP4, U_LOOPINT, U_LOCALHOST,
          U_PRIV10, U_PRIV172, U_PRIV192, U_FTP, U_FTPPRIV, U_JS, U_NOTURL, U_NOHOST>>

GatewayHeaders == [origin |-> "https://app.example"]
Ev(method, body) == [httpMethod |-> method, body |-> body, headers |-> GatewayHeaders]

RssEvents ==
    <<Ev("OPTIONS", BodyAbsent), Ev("GET", BodyAbsent),
      Ev("GET", BodyJSON(Obj([url |-> Str(U_EXAMPLE)]))),
      Ev("POST", BodyAbsent), Ev("POST", BodyEmpty), Ev("POST", BodyMalformed),
      Ev("POST", BodyJSON(Null)), Ev("POST", BodyJSON(Num(5))),
      Ev("POST", BodyJSON(EmptyObj)),
      Ev("POST", BodyJSON(Obj([url |-> Num(7)]))),
      Ev("POST", BodyJSON(Obj([url |-> Str(<<>>)])))>>
    \o [i \in 1..Len(Urls) |-> Ev("POST", BodyJSON(Obj([url |-> Str(Urls[i])])))]

\* a response body on the wire: chunk i is first[i], and rest from then on
BodyPatterns ==
    <<[first |-> <<C_RSS>>, rest |-> C_ITEM],
      [first |-> <<C_HTML>>, rest |-> C_P],
      [first |-> <<C_FEEDUP>>, rest |-> C_A],
      [first |-> <<C_R, C_SS>>, rest |-> C_A],
      [first |-> <<Pad(PreviewLen - 4), M_RSS>>, rest |-> C_A],
      [first |-> <<Pad(PreviewLen - 3), M_RSS>>, rest |-> C_A],
      [first |-> [i \in 1..maxChunks |-> C_A] \o <<M_RSS>>, rest |-> C_P],
      [first |-> <<C_JSON1, C_JSON2>>, rest |-> C_A]>>

ChunkAt(p, i) ==
    IF i <= Len(BodyPatterns[p].first) THEN BodyPatterns[p].first[i]
    ELSE BodyPatterns[p].rest

NoHeaders == [k \in {} |-> <<>>]
ContentType(v) == [k \in {"content-type"} |-> v]

\* what a feed server may answer: status line, headers and body on the wire
Answer(status, headers, p) == [statusCode |-> status, headers |-> headers, pattern |-> p]
RssAnswers ==
    <<Answer(200, ContentType(CT_RSS), 1),
      Answer(200, ContentType(CT_HTML), 2),
      Answer(200, ContentType(CT_HTML), 1),
      Answer(404, ContentType(CT_HTML), 2),
      Answer(404, ContentType(CT_HTML), 1),
      Answer(404, ContentType(CT_RSS), 2),
      Answer(500, ContentType(CT_UPPER), 2),
      Answer(200, NoHeaders, 3),
      Answer(200, NoHeaders, 4),
      Answer(200, NoHeaders, 5),
      Answer(200, NoHeaders, 6),
      Answer(200, NoHeaders, 7)>>

\* errors the request may emit while connecting, and at any time
ConnectErrors ==
    {Err("ENOTFOUND", "getaddrinfo ENOTFOUND"),
     Err("ECONNREFUSED", "connect ECONNREFUSED"),
     Err("ETIMEDOUT", "connect ETIMEDOUT")}
SocketErrors == {Err("ECONNRESET", "socket hang up")}

(***************************************************************************)
(* test-rss.js: the invocation and the callbacks of makeHttpRequest        *)
(***************************************************************************)
TestRss(e) ==
    /\ pc = "idle"
    /\ handler' = "test-rss"
    /\ event' = e
    /\ LET out == RssSync(e)
       IN  IF out.fetch
           THEN /\ request' = makeHttpRequest(out.parsedUrl)
                /\ requests' = requests + 1
                /\ promise' = [state |-> "pending", value |-> Undefined]
                /\ pc' = "awaiting"
                /\ UNCHANGED <<response, returned>>
           ELSE /\ response' = out.response
                /\ returned' = returned + 1
                /\ pc' = "done"
                /\ UNCHANGED <<request, requests, promise>>
    /\ UNCHANGED <<hostname, verdict, upstream, data, chunks, received, settledBy, config>>

\* client.request's callback: let data = ''; let chunks = 0; res.on(...)
RssResponse(res) ==
    /\ handler = "test-rss"
    /\ request.state = "sent"
    /\ request' = [request EXCEPT !.state = "responding"]
    /\ upstream' = res
    /\ data' = <<>>
    /\ chunks' = 0
    /\ UNCHANGED <<hostname, verdict, handler, event, pc, requests, received, promise, settledBy,
                   response, returned, config>>

\* variant: the comparison with the cap is strict
RssCapture_Strict(d, n, chunk) == IF n < maxChunks THEN d \o chunk ELSE d

\* the body of res.on('data'): n is chunks after chunks++
RssCapture(d, n, chunk) == IF n <= maxChunks THEN d \o chunk ELSE d

RssData ==
    /\ handler = "test-rss"
    /\ request.state = "responding"
    /\ Len(received) < MaxWireChunks
    /\ LET chunk == ChunkAt(upstream.pattern, Len(received) + 1)
       IN  /\ received' = Append(received, chunk)
           /\ chunks' = chunks + 1
           /\ data' = RssCapture(data, chunks + 1, chunk)
    /\ UNCHANGED <<hostname, verdict, handler, event, pc, request, requests, upstream, promise,
                   settledBy, response, returned, config>>

\* what res.on('end') resolves with
RssResult(res, d) == [statusCode |-> res.statusCode, headers |-> res.headers, data |-> d]

RssEnd ==
    /\ handler = "test-rss"
    /\ request.state = "responding"
    /\ request' = [request EXCEPT !.state = "ended"]
    /\ promise' = Resolve(promise, RssResult(upstream, data))
    /\ settledBy' = SettledBy(promise, settledBy, "end")
    /\ UNCHANGED <<hostname, verdict, handler, event, pc, requests, upstream, data, chunks, received,
                   response, returned, config>>

\* variant: an error re-issues the request instead of rejecting
RssError_Retry(err) ==
    /\ handler = "test-rss"
    /\ request.state = "sent"
    /\ err \in ConnectErrors
    /\ requests < 3
    /\ requests' = requests + 1
    /\ UNCHANGED <<hostname, verdict, handler, event, pc, request, upstream, data,
                   chunks, received, promise, settledBy, response, returned, config>>

\* req.on('error', reject)
RssError(err) ==
    /\ handler = "test-rss"
    /\ \/ request.state = "sent" /\ err \in ConnectErrors \cup SocketErrors
       \/ request.state \in {"responding", "destroyed"} /\ err \in SocketErrors
    /\ request' = [request EXCEPT !.state = "closed"]
    /\ promise' = Reject(promise, err)
    /\ settledBy' = SettledBy(promise, settledBy, "error")
    /\ UNCHANGED <<hostname, verdict, handler, event, pc, requests, upstream, data, chunks, received,
                   response, returned, config>>

\* the Error the timeout listener rejects with
RssTimeoutError == Err("", "Request timeout")

\* variant: the timeout listener destroys the request and does not reject
RssTimeout_NoReject ==
    /\ handler = "test-rss"
    /\ request.state \in {"sent", "responding"}
    /\ request' = [request EXCEPT !.state = "destroyed"]
    /\ UNCHANGED <<hostname, verdict, handler, event, pc, requests, upstream, data,
                   chunks, received, promise, settledBy, response, returned, config>>

\* req.on('timeout', ...): req.destroy(); reject(new Error('Request timeout'))
RssTimeout ==
    /\ handler = "test-rss"
    /\ request.state \in {"sent", "responding"}
    /\ request' = [request EXCEPT !.state = "destroyed"]
    /\ promise' = Reject(promise, RssTimeoutError)
    /\ settledBy' = SettledBy(promise, settledBy, "timeout")
    /\ UNCHANGED <<hostname, verdict, handler, event, pc, requests, upstream, data, chunks, received,
                   response, returned, config>>

\* the url the handler destructured from the body
RssUrl(e) == Prop(e.body.doc, "url").s

\* what the handler returns once the awaited promise p is settled
RssAfterAwait(p, e) ==
    IF p.state = "fulfilled" THEN RssClassify(p.value, RssUrl(e)) ELSE RssCatch(p.value)

\* the handler resumes after the await
RssResume ==
    /\ handler = "test-rss"
    /\ pc = "awaiting"
    /\ promise.state \in {"fulfilled", "rejected"}
    /\ response' = RssAfterAwait(promise, event)
    /\ returned' = returned + 1
    /\ pc' = "done"
    /\ UNCHANGED <<hostname, verdict, handler, event, request, requests, upstream, data, chunks,
                   received, promise, settledBy, config>>

(***************************************************************************)
(* trigger-github.js: exports.handler and the callbacks of its request     *)
(***************************************************************************)
validTriggers == <<NEW_FEED, FULL_REFRESH, SCHEDULED, CLEANUP_ONLY>>

\* events a client may send to trigger-github
GhBody(f) == BodyJSON(Obj(f))
GhEvents ==
    <<Ev("OPTIONS", BodyAbsent), Ev("GET", GhBody([trigger_type |-> Str(NEW_FEED)])),
      Ev("POST", BodyAbsent), Ev("POST", BodyEmpty), Ev("POST", BodyMalformed),
      Ev("POST", BodyJSON(Null)), Ev("POST", BodyJSON(EmptyObj)),
      Ev("POST", GhBody([trigger_type |-> Num(1)])),
      Ev("POST", GhBody([trigger_type |-> Str(<<>>)])),
      Ev("POST", GhBody([trigger_type |-> Str(T_BOGUS)])),
      Ev("POST", GhBody([trigger_type |-> Str(T_UPPER)])),
      Ev("POST", GhBody([feed_id |-> Str(FEED_42)])),
      Ev("POST", GhBody([trigger_type |-> Str(NEW_FEED), feed_id |-> Str(FEED_42)])),
      Ev("POST", GhBody([trigger_type |-> Str(NEW_FEED)])),
      Ev("POST", GhBody([trigger_type |-> Str(FULL_REFRESH), feed_id |-> Str(<<>>)])),
      Ev("POST", GhBody([trigger_type |-> Str(SCHEDULED)])),
      Ev("POST", GhBody([trigger_type |-> Str(CLEANUP_ONLY)]))>>

\* values process.env may hold for the three settings
Env(token, owner, repo) ==
    [GITHUB_TOKEN |-> token, GITHUB_OWNER |-> owner, GITHUB_REPO |-> repo]
Envs ==
    <<Env(Str(GH_TOKEN), Str(GH_OWNER), Str(GH_REPO)),
      Env(Undefined, Str(GH_OWNER), Str(GH_REPO)),
      Env(Str(GH_TOKEN), Str(<<>>), Str(GH_REPO)),
      Env(Str(GH_TOKEN), Str(GH_OWNER), Undefined),
      Env(Undefined, Undefined, Undefined)>>

\* what the GitHub API may answer
GhAnswers ==
    <<Answer(204, NoHeaders, 3),
      Answer(404, NoHeaders, 8),
      Answer(422, NoHeaders, 8)>>

GhReturn(resp) == [dispatch |-> FALSE, response |-> resp, inputs |-> EmptyObj]
GhReject(status, msg) == GhReturn(Response(status, [success |-> FALSE, error |-> msg]))

\* the outer catch block
GhCatch(error) ==
    Response(500, [success |-> FALSE, error |-> "Internal server error",
                   message |-> error.message])

\* the check of process.env and the workflow inputs that are sent
GhPrepare(trigger_type, feed_id, env) ==
    IF \/ ~Truthy(env.GITHUB_TOKEN)
       \/ ~Truthy(env.GITHUB_OWNER)
       \/ ~Truthy(env.GITHUB_REPO)
    THEN GhReject(500, "GitHub configuration missing. Please check environment variables.")
    ELSE [dispatch |-> TRUE, response |-> NoResponse,
          inputs |-> IF Truthy(feed_id)
                     THEN Obj([trigger_type |-> trigger_type, feed_id |-> feed_id])
                     ELSE Obj([trigger_type |-> trigger_type])]

\* variant: the value is not compared with the list
GhValidate_NoList(trigger_type, feed_id, env) ==
    IF ~Truthy(trigger_type) \/ trigger_type.t # "string"
    THEN GhReject(400, "trigger_type is required and must be a string")
    ELSE GhPrepare(trigger_type, feed_id, env)

\* the validation of trigger_type
GhValidate(trigger_type, feed_id, env) ==
    IF ~Truthy(trigger_type) \/ trigger_type.t # "string"
    THEN GhReject(400, "trigger_type is required and must be a string")
    ELSE IF ~ArrIncludes(validTriggers, trigger_type.s)
    THEN GhReject(400,
           "trigger_type must be one of: new_feed, full_refresh, scheduled, cleanup_only")
    ELSE GhPrepare(trigger_type, feed_id, env)

\* the synchronous part: either a response to return, or the inputs to dispatch.
\* The gateway always passes a headers object, so event.headers.origin is defined.
GhSync(e, env) ==
    IF e.httpMethod = "OPTIONS"
    THEN GhReturn(Response(200, [message |-> "CORS preflight OK"]))
    ELSE IF e.httpMethod # "POST"
    THEN GhReturn(Response(405, [success |-> FALSE, error |-> "Only POST requests allowed",
                                 method |-> e.httpMethod]))
    ELSE LET parsed == IF e.body.kind \in {"absent", "empty"}
                       THEN [threw |-> FALSE, value |-> EmptyObj]
                       ELSE JSONparse(e.body)
         IN  IF parsed.threw THEN GhReject(400, "Invalid JSON in request body")
             ELSE IF ~Destructurable(parsed.value)
             THEN GhReturn(GhCatch(Err("",
                "Cannot destructure property 'trigger_type' of 'requestData' as it is null.")))
             ELSE GhValidate(Prop(parsed.value, "trigger_type"),
                             Prop(parsed.value, "feed_id"), env)

\* https.request(options, ...); req.setTimeout(15000); req.write(postData); req.end()
GhRequest(inputs, env) ==
    [state    |-> "sent",
     client   |-> "https",
     hostname |-> "api.github.com",
     port     |-> 443,
     path     |-> <<"/repos/", env.GITHUB_OWNER.s, "/", env.GITHUB_REPO.s,
                    "/actions/workflows/rss-scraper.yml/dispatches">>,
     method   |-> "POST",
     payload  |-> [ref |-> "main", inputs |-> inputs]]

TriggerGithub(e, env) ==
    /\ pc = "idle"
    /\ handler' = "trigger-github"
    /\ event' = e
    /\ LET out == GhSync(e, env)
       IN  IF out.dispatch
           THEN /\ request' = GhRequest(out.inputs, env)
                /\ requests' = requests + 1
                /\ promise' = [state |-> "pending", value |-> Undefined]
                /\ pc' = "awaiting"
                /\ UNCHANGED <<response, returned>>
           ELSE /\ response' = out.response
                /\ returned' = returned + 1
                /\ pc' = "done"
                /\ UNCHANGED <<request, requests, promise>>
    /\ config' = env
    /\ UNCHANGED <<hostname, verdict, upstream, data, chunks, received, settledBy>>

\* https.request's callback: let responseData = ''; res.on(...)
GhResponse(res) ==
    /\ handler = "trigger-github"
    /\ request.state = "sent"
    /\ request' = [request EXCEPT !.state = "responding"]
    /\ upstream' = res
    /\ data' = <<>>
    /\ UNCHANGED <<hostname, verdict, handler, event, pc, requests, chunks, received, promise, settledBy,
                   response, returned, config>>

\* res.on('data'): responseData += chunk
GhData ==
    /\ handler = "trigger-github"
    /\ request.state = "responding"
    /\ Len(received) < MaxWireChunks
    /\ LET chunk == ChunkAt(upstream.pattern, Len(received) + 1)
       IN  /\ received' = Append(received, chunk)
           /\ data' = data \o chunk
    /\ UNCHANGED <<hostname, verdict, handler, event, pc, request, requests, upstream, chunks, promise,
                   settledBy, response, returned, config>>

GhEnd ==
    /\ handler = "trigger-github"
    /\ request.state = "responding"
    /\ request' = [request EXCEPT !.state = "ended"]
    /\ promise' = Resolve(promise, [statusCode |-> upstream.statusCode,
                                    headers |-> upstream.headers, data |-> data])
    /\ settledBy' = SettledBy(promise, settledBy, "end")
    /\ UNCHANGED <<hostname, verdict, handler, event, pc, requests, upstream, data, chunks, received,
                   response, returned, config>>

\* req.on('error', (error) => { ...; reject(error) })
GhError(err) ==
    /\ handler = "trigger-github"
    /\ \/ request.state = "sent" /\ err \in ConnectErrors \cup SocketErrors
       \/ request.state \in {"responding", "destroyed"} /\ err \in SocketErrors
    /\ request' = [request EXCEPT !.state = "closed"]
    /\ promise' = Reject(promise, err)
    /\ settledBy' = SettledBy(promise, settledBy, "error")
    /\ UNCHANGED <<hostname, verdict, handler, event, pc, requests, upstream, data, chunks, received,
                   response, returned, config>>

\* req.on('timeout', ...): req.destroy(); reject(new Error(...))
GhTimeout ==
    /\ handler = "trigger-github"
    /\ request.state \in {"sent", "responding"}
    /\ request' = [request EXCEPT !.state = "destroyed"]
    /\ promise' = Reject(promise, Err("", "Request timeout after 15 seconds"))
    /\ settledBy' = SettledBy(promise, settledBy, "timeout")
    /\ UNCHANGED <<hostname, verdict, handler, event, pc, requests, upstream, data, chunks, received,
                   response, returned, config>>

\* what the handler returns once the awaited promise p is settled.  The text the
\* error message takes from the upstream body is carried whole in github_response.
GhAfterAwait(p, inputs, env) ==
    IF p.state = "rejected" THEN GhCatch(p.value)
    ELSE IF p.value.statusCode = 204
    THEN Response(200, [success |-> TRUE,
                        trigger_type |-> Prop(inputs, "trigger_type"),
                        feed_id |-> IF Truthy(Prop(inputs, "feed_id"))
                                    THEN Prop(inputs, "feed_id") ELSE Null,
                        repository |-> <<env.GITHUB_OWNER.s, "/", env.GITHUB_REPO.s>>,
                        workflow |-> "rss-scraper.yml"])
    ELSE Response(500, [success |-> FALSE,
                        error |-> <<"GitHub API returned status ", p.value.statusCode>>,
                        github_status |-> p.value.statusCode,
                        github_response |-> p.value.data,
                        trigger_type |-> Prop(inputs, "trigger_type")])

GhResume ==
    /\ handler = "trigger-github"
    /\ pc = "awaiting"
    /\ promise.state \in {"fulfilled", "rejected"}
    /\ response' = GhAfterAwait(promise, request.payload.inputs, config)
    /\ returned' = returned + 1
    /\ pc' = "done"
    /\ UNCHANGED <<hostname, verdict, handler, event, request, requests, upstream, data, chunks,
                   received, promise, settledBy, config>>

Init ==
    /\ handler = "none"
    /\ event = NoEvent
    /\ pc = "idle"
    /\ request = NoRequest
    /\ requests = 0
    /\ upstream = NoUpstream
    /\ data = <<>>
    /\ chunks = 0
    /\ received = <<>>
    /\ promise = NoPromise
    /\ settledBy = "none"
    /\ response = NoResponse
    /\ returned = 0
    /\ config = NoConfig
    /\ hostname = <<>>
    /\ verdict = "pending"

\* an event on a request that is still in flight; the socket's idle timeout
\* makes sure one comes
NetworkEvent ==
    /\ request.state \in {"sent", "responding"}
    /\ \/ RssTimeout
       \/ GhTimeout
       \/ \E err \in ConnectErrors \cup SocketErrors : RssError(err)
       \/ \E err \in ConnectErrors \cup SocketErrors : GhError(err)
       \/ RssEnd
       \/ GhEnd
       \/ RssData
       \/ GhData
       \/ \E i \in 1..Len(RssAnswers) : RssResponse(RssAnswers[i])
       \/ \E i \in 1..Len(GhAnswers) : GhResponse(GhAnswers[i])

Next ==
    \/ \E i \in 1..Len(RssEvents) : TestRss(RssEvents[i])
    \/ \E i \in 1..Len(RssAnswers) : RssResponse(RssAnswers[i])
    \/ RssData
    \/ RssEnd
    \/ \E err \in ConnectErrors \cup SocketErrors : RssError(err)
    \/ RssTimeout
    \/ RssResume
    \/ \E i \in 1..Len(GhEvents), j \in 1..Len(Envs) : TriggerGithub(GhEvents[i], Envs[j])
    \/ \E i \in 1..Len(GhAnswers) : GhResponse(GhAnswers[i])
    \/ GhData
    \/ GhEnd
    \/ \E err \in ConnectErrors \cup SocketErrors : GhError(err)
    \/ GhTimeout
    \/ GhResume

Spec == Init /\ [][Next]_vars

\* the suspended handler runs on once the promise it awaits has settled
AwaitReturns ==
    /\ pc = "awaiting"
    /\ promise.state \in {"fulfilled", "rejected"}
    /\ pc' = "done"

\* Fairness: a request in flight sees a next event (at the latest its idle
\* timeout), and a handler whose promise has settled is resumed.
FairSpec ==
    /\ Spec
    /\ WF_vars(NetworkEvent)
    /\ WF_pc(AwaitReturns)

(***************************************************************************)
(* The admission filter on its own: a call of isLocalOrPrivateIP on a      *)
(* hostname drawn from a bounded set of strings.                           *)
(***************************************************************************)
H_EXAMPLE    == <<"e","x","a","m","p","l","e",".","c","o","m">>
H_DNS8       == <<"8",".","8",".","8",".","8">>
H_DOC        == <<"2","0","3",".","0",".","1","1","3",".","5">>
H_V6PUB      == <<"2","0","0","1",":","d","b","8",":",":","1">>
H_V6PUBB     == <<"[","2","0","0","1",":","d","b","8",":",":","1","]">>
H_LOOP6B     == <<"[",":",":","1","]">>
H_LOOP2      == <<"1","2","7",".","0",".","0",".","2">>
H_UPPER      == <<"L","O","C","A","L","H","O","S","T">>
H_DOT        == <<"l","o","c","a","l","h","o","s","t",".">>
H_10DNS      == <<"1","0",".","e","x","a","m","p","l","e",".","c","o","m">>
H_100        == <<"1","0","0",".","1",".","1",".","1">>
H_192169     == <<"1","9","2",".","1","6","9",".","1",".","1">>
H_1720       == <<"1","7","2","0",".","0",".","0",".","1">>
H_X10        == <<"x","1","0",".","0",".","0",".","1">>
H_LINK       == <<"1","6","9",".","2","5","4",".","1","6","9",".","2","5","4">>

MaxHostLen == 3
MaxSuffixLen == 2

HostAlphabet == {"1", "0", ".", "7", "2"}
Strings(n) == UNION {[1..k -> HostAlphabet] : k \in 0..n}

Hostnames ==
    {LOCALHOST, LOOPBACK4, LOOPBACK6, H_EXAMPLE, H_DNS8, H_DOC, H_V6PUB, H_V6PUBB,
     H_LOOP6B, H_LOOP2, H_UPPER, H_DOT, H_10DNS, H_100, H_192169, H_1720, H_X10, H_LINK}
    \cup Strings(MaxHostLen)
    \cup {p \o x : p \in {PFX10, PFX172, PFX192, LOCALHOST, LOOPBACK4, LOOPBACK6,
                           SubSeq(PFX192, 1, 7), SubSeq(PFX172, 1, 3)},
                   x \in Strings(MaxSuffixLen)}

FilterStart ==
    /\ handler = "none" /\ pc = "idle" /\ hostname \in Hostnames /\ verdict = "pending"
    /\ event = NoEvent /\ request = NoRequest /\ requests = 0 /\ upstream = NoUpstream
    /\ data = <<>> /\ chunks = 0 /\ received = <<>> /\ promise = NoPromise
    /\ settledBy = "none" /\ response = NoResponse /\ returned = 0 /\ config = NoConfig

\* one call of the function
FilterCall ==
    /\ verdict = "pending"
    /\ verdict' = IF isLocalOrPrivateIP(hostname) THEN "blocked" ELSE "allowed"
    /\ UNCHANGED <<hostname, handler, event, pc, request, requests, upstream, data,
                   chunks, received, promise, settledBy, response, returned, config>>

FilterNext == FilterCall

FilterSpec == FilterStart /\ [][FilterNext]_vars

(***************************************************************************)
(* Properties                                                              *)
(***************************************************************************)
\* what the client posted, read off the event independently of the handler
PostedJSON == event.httpMethod = "POST" /\ event.body.kind = "json"
PostedUrl  == Prop(event.body.doc, "url")
HasUrlText == PostedJSON /\ PostedUrl.t = "string" /\ PostedUrl.s # <<>>
HttpScheme(u) == u.protocol \in {P_HTTP, P_HTTPS}

\* C1: in test-rss an outbound request is issued only for a POST whose body
\* parsed as JSON with a non-empty string url that parses, has scheme http: or
\* https: and a hostname isLocalOrPrivateIP does not block; a parsed URL with
\* another scheme or a blocked hostname is answered 400 with no request issued.
C1_FetchOnlyWhenAdmitted ==
    handler = "test-rss" =>
        /\ requests > 0 => HasUrlText
        /\ HasUrlText =>
             LET u == ParseURL(PostedUrl.s)
             IN  /\ requests > 0 =>
                       u.ok /\ HttpScheme(u) /\ ~isLocalOrPrivateIP(u.hostname)
                 /\ (u.ok /\ (~HttpScheme(u) \/ isLocalOrPrivateIP(u.hostname))) =>
                       /\ requests = 0
                       /\ request.state = "none"
                       /\ pc = "done"
                       /\ response.statusCode = 400

C1_Witness ==
    /\ handler = "test-rss"
    /\ requests = 0
    /\ response.statusCode = 400
    /\ HasUrlText
    /\ LET u == ParseURL(PostedUrl.s)
       IN  u.ok /\ HttpScheme(u) /\ isLocalOrPrivateIP(u.hostname)

\* a dotted quad of decimal octets, and the address ranges of RFC 1122 / RFC 1918
IsQuad(h) ==
    LET parts == Split(h, ".")
    IN  /\ Len(parts) = 4
        /\ \A i \in 1..4 : /\ parts[i] # <<>>
                           /\ Len(parts[i]) <= 3
                           /\ \A j \in 1..Len(parts[i]) : IsDigit(parts[i][j])
                           /\ ParseRadix(parts[i], 10) <= 255
Octet(h, i) == ParseRadix(Split(h, ".")[i], 10)
IsLoopbackLiteral(h) == \/ h = <<"[">> \o LOOPBACK6 \o <<"]">>
                        \/ IsQuad(h) /\ Octet(h, 1) = 127
IsPrivateLiteral(h) ==
    /\ IsQuad(h)
    /\ \/ Octet(h, 1) = 10
       \/ Octet(h, 1) = 172 /\ Octet(h, 2) \in 16..31
       \/ Octet(h, 1) = 192 /\ Octet(h, 2) = 168

\* C2: a hostname taken from parsedUrl.hostname that is a loopback literal
\* (127.0.0.0/8, or ::1 as the URL parser spells it) or a private-range IPv4
\* literal is blocked by isLocalOrPrivateIP: the handler answers 400 and
\* issues no request.
C2_LoopbackAndPrivateNeverFetched ==
    (handler = "test-rss" /\ HasUrlText) =>
        LET u == ParseURL(PostedUrl.s)
        IN  (/\ u.ok
             /\ HttpScheme(u)
             /\ IsLoopbackLiteral(u.hostname) \/ IsPrivateLiteral(u.hostname)) =>
                /\ isLocalOrPrivateIP(u.hostname)
                /\ requests = 0
                /\ response.statusCode = 400

\* C3: isLocalOrPrivateIP(hostname) is true exactly when hostname is one of
\* localhost, 127.0.0.1, ::1 or begins with 10., 172. or 192.168.; it is false
\* for example.com, 8.8.8.8, 203.0.113.5 and public IPv6 literals; a call
\* changes nothing but its result.
C3_FilterIsExactlyTheListAndPrefixes ==
    verdict # "pending" =>
        /\ verdict = "blocked" <=>
               \/ hostname \in {LOCALHOST, LOOPBACK4, LOOPBACK6}
               \/ \E p \in {PFX10, PFX172, PFX192} :
                      \E k \in 1..(Len(hostname) + 1) : p \o From(hostname, k) = hostname
        /\ hostname \in {H_EXAMPLE, H_DNS8, H_DOC, H_V6PUB, H_V6PUBB} => verdict = "allowed"
        /\ handler = "none" /\ requests = 0 /\ request = NoRequest /\ response = NoResponse

C3_Witness ==
    /\ verdict = "blocked"
    /\ StartsWith(hostname, PFX172)
    /\ Len(hostname) > Len(PFX172)

C5_TransportErrorMessages ==
    (handler = "test-rss" /\ pc = "done" /\ promise.state = "rejected") =>
        /\ response.statusCode = 500
        /\ response.body.success = FALSE
        /\ response.body.error =
              IF settledBy = "timeout" \/ promise.value.code = "ETIMEDOUT"
              THEN "Request timeout - server took too long to respond"
              ELSE IF promise.value.code = "ENOTFOUND"
              THEN "Domain not found - please check the URL"
              ELSE IF promise.value.code = "ECONNREFUSED"
              THEN "Connection refused - server may be down"
              ELSE "Error testing feed: " \o promise.value.message

\* C6: the captured body is at every point the first min(k, 50) of the k
\* chunks received, in arrival order; later chunks are counted but dropped,
\* and 'end' resolves with exactly that body.
C6_BodyIsFirstFiftyChunks ==
    handler = "test-rss" =>
        /\ chunks = Len(received)
        /\ data = Flatten(SubSeq(received, 1, Min(Len(received), 50)))
        /\ promise.state = "fulfilled" =>
               promise.value.data =
                   Flatten(SubSeq(received, 1, Min(Len(received), 50)))

C6_Witness ==
    /\ handler = "test-rss"
    /\ promise.state = "fulfilled"
    /\ Len(received) > 50
    /\ chunks > 50

\* the truncated field of a fetch result, as a boolean
ResultTruncated(result) == "truncated" \in DOMAIN result /\ result.truncated = TRUE

\* C7: the result of a successful fetch has truncated true exactly when the
\* server delivered more chunks than were captured.
C7_TruncationRecorded ==
    (handler = "test-rss" /\ promise.state = "fulfilled") =>
        (ResultTruncated(promise.value) <=> Len(received) > maxChunks)

\* C8: an invocation of test-rss issues at most one outbound request, none
\* when it is rejected at a validation step, and does not issue another after
\* an error, a timeout or a non-200 upstream status.
C8_AtMostOneRequest ==
    handler = "test-rss" =>
        /\ requests <= 1
        /\ (pc = "done" /\ response.statusCode \in {400, 405}) => requests = 0
        /\ promise.state # "none" => requests = 1

C8_Witness ==
    /\ handler = "test-rss"
    /\ pc = "done"
    /\ promise.state = "rejected"
    /\ request.state = "closed"
    /\ requests = 1

Markers == {M_RSS, M_FEED, M_XML, M_CHANNEL, M_ATOM}

\* the marker m lies wholly within the first n characters of d, in any case
MarkerWithin(d, m, n) ==
    \E i \in 0..(Len(d) - Len(m)) :
        /\ i + Len(m) <= n
        /\ \A j \in 1..Len(m) : LowerChar(d[i + j]) = m[j]

\* C9: for a completed fetch, valid is true exactly when the content-type
\* header (empty when absent) contains xml, rss or atom, or one of the five
\* markers lies within the lower-cased first 1000 characters of the body; the
\* upstream status plays no part.
C9_ValidIffContentTypeOrMarker ==
    (handler = "test-rss" /\ pc = "done" /\ promise.state = "fulfilled") =>
        LET hs == promise.value.headers
            ct == IF "content-type" \in DOMAIN hs THEN hs["content-type"] ELSE <<>>
        IN  /\ response.statusCode = 200
            /\ response.body.valid <=>
                  \/ \E w \in {XML, RSS, ATOM} :
                         \E k \in 1..(Len(ct) + 1) :
                             StartsWith(From(ct, k), w)
                  \/ \E m \in Markers : MarkerWithin(promise.value.data, m, 1000)

C9_Witness ==
    /\ handler = "test-rss"
    /\ pc = "done"
    /\ promise.state = "fulfilled"
    /\ response.body.valid = FALSE
    /\ Len(promise.value.data) > 1000
    /\ StrIncludes(promise.value.data, M_RSS)

\* what the client posted to trigger-github
PostedTrigger == Prop(event.body.doc, "trigger_type")
TriggerValid ==
    /\ PostedTrigger.t = "string"
    /\ PostedTrigger.s \in {NEW_FEED, FULL_REFRESH, SCHEDULED, CLEANUP_ONLY}
ConfigPresent ==
    \A k \in {"GITHUB_TOKEN", "GITHUB_OWNER", "GITHUB_REPO"} :
        config[k].t = "string" /\ config[k].s # <<>>

=============================================================================
